---------------------------- MODULE Spec2Model ----------------------------
(***************************************************************************)
(* Live-state synchronisation layer of the tournament spectator dashboard: *)
(*   - the useWebSocket hook (connect / reconnect / keepalive / teardown), *)
(*   - the handleWsMessage dispatcher of AudienceView,                     *)
(*   - the score time series accumulated by the setGraphData updater,      *)
(*   - the one-shot snapshot fetch (fetchData).                            *)
(*                                                                         *)
(* JavaScript values are records tagged by a field t ("undefined", "null", *)
(* "array", "object"); a missing property reads as Undef.  Time is in      *)
(* milliseconds.                                                           *)
(*                                                                         *)
(* React state.  The setters of tournament, leaderboard, currentMatch and  *)
(* matchProgress are given values or pure functions of the previous state, *)
(* applied in call order, so the variables hold the state those calls      *)
(* produce.  The function handed to setGraphData reads the two refs        *)
(* (dataPointRef, baseScoresRef) and writes baseScoresRef when React runs  *)
(* it, which is at the next render, not at the call: the calls are kept in *)
(* pendingGraph and the action Render runs them.                           *)
(***************************************************************************)
EXTENDS Integers, Sequences, FiniteSets, TLC

VARIABLES
    mounted,           \* "init" | "mounted" | "unmounted": the mount effect
    sockets,           \* every WebSocket created so far: [readyState]
    ws,                \* ws.current: 0 (null) or an index of sockets
    closePending,      \* socket whose error event fired; its close event is next
    timers,            \* every setTimeout(connect, ..) made: [delay, elapsed, state]
    reconnectTimeout,  \* reconnectTimeout.current: 0 (null) or an index of timers
    pingInterval,      \* the keepalive interval: [active, elapsed]
    pings,             \* number of "ping" payloads sent
    reachable,         \* environment: the server accepts connections
    tournament, leaderboard, currentMatch, matchProgress,   \* useState values
    graphData,         \* useState: the score time series
    pendingGraph,      \* setGraphData calls not yet run by a render
    baseScoresRef,     \* baseScoresRef.current: team id -> baseline
    dataPointRef,      \* dataPointRef.current: the tick counter
    fetch,             \* fetchData: "idle" | "pending" | "done" | "failed"
    nEvents,           \* number of frames delivered (bounded by MaxEvents)
    last               \* the last step taken (history)

conn  == <<mounted, sockets, ws, closePending, timers, reconnectTimeout,
           pingInterval, pings, reachable>>
store == <<tournament, leaderboard, currentMatch, matchProgress>>
accum == <<graphData, pendingGraph, baseScoresRef, dataPointRef>>
vars  == <<mounted, sockets, ws, closePending, timers, reconnectTimeout,
           pingInterval, pings, reachable,
           tournament, leaderboard, currentMatch, matchProgress,
           graphData, pendingGraph, baseScoresRef, dataPointRef,
           fetch, nEvents, last>>

-----------------------------------------------------------------------------
(* Program constants *)
RECONNECT_DELAY == 3000
PING_INTERVAL == 25000
WINDOW == 100

(* Bounds of the model *)
MaxSockets == 3
MaxEvents == 3
MaxPending == 2
MaxPings == 1

-----------------------------------------------------------------------------
(* JavaScript values *)
Undef == [t |-> "undefined"]
Null == [t |-> "null"]
Arr(s) == [t |-> "array", items |-> s]
Field(o, k) == IF o.t = "object" /\ k \in DOMAIN o THEN o[k] ELSE Undef
Truthy(v) == v.t \notin {"undefined", "null"}

Min(a, b) == IF a < b THEN a ELSE b
SetMin(S) == CHOOSE x \in S : \A y \in S : x <= y
Last(s) == s[Len(s)]

EmptyMap == [x \in {} |-> 0]
Put(f, k, v) == [x \in DOMAIN f \cup {k} |-> IF x = k THEN v ELSE f[x]]

-----------------------------------------------------------------------------
(* Inbound frames.  A frame is raw text: either it is not JSON (json =    *)
(* FALSE) or it is the JSON encoding of value.                            *)
TextFrame == [json |-> FALSE]
JsonFrame(v) == [json |-> TRUE, value |-> v]

\* JSON.parse(event.data), part_000 line 27: throws on text that is not JSON
JSONparse(frame) ==
    IF frame.json THEN [ok |-> TRUE, value |-> frame.value] ELSE [ok |-> FALSE]

Team(id, total) == [id |-> id, total_score |-> total]
Slot(id, score) == [t |-> "object", id |-> id, score |-> score]
Status(s) == [t |-> "object", status |-> s]

LB1 == <<Team("A", 40), Team("B", 10)>>
LB2 == <<Team("A", 45), Team("B", 12)>>
LB3 == <<Team("C", 3), Team("A", 41), Team("B", 11)>>

Match1 == [t |-> "object", match_number |-> 1]
P1 == [t |-> "object", team_a |-> Slot("A", 5), team_b |-> Slot("B", 2)]
P2 == [t |-> "object", team_a |-> Slot("A", 1), team_b |-> Slot("B", 1),
       team_c |-> Slot("C", 3)]
P3 == [t |-> "object", team_a |-> [t |-> "object", id |-> "C"],
       team_b |-> [t |-> "object", score |-> 4]]
ProgressPayloads == {P1, P2, P3}

Msg(type) == [t |-> "object", type |-> type]
MsgData(type, d) == [t |-> "object", type |-> type, data |-> d]
MsgLb(type, lb) == [t |-> "object", type |-> type, leaderboard |-> Arr(lb)]

KnownTags ==
    {"initial_state", "tournament_started", "showdown_started", "match_started",
     "match_progress", "match_completed", "tournament_finished",
     "showdown_finished", "tournament_paused", "tournament_resumed",
     "tournament_reset"}

\* decoded messages with a known tag
Events ==
    {[t |-> "object", type |-> "initial_state", tournament |-> Status("running"),
      leaderboard |-> Arr(LB1)],
     [t |-> "object", type |-> "initial_state", tournament |-> Status("idle")]}
    \cup {Msg(tg) : tg \in {"tournament_started", "showdown_started",
                            "tournament_paused", "tournament_resumed",
                            "tournament_reset"}}
    \cup {MsgData("match_started", Match1)}
    \cup {MsgData("match_progress", p) : p \in ProgressPayloads}
    \cup {MsgLb("match_completed", lb) : lb \in {LB2, LB3}}
    \cup {MsgLb(tg, LB2) : tg \in {"tournament_finished", "showdown_finished"}}

\* frames that decode to no tagged message: text that is not JSON, JSON null,
\* an object without a type
Malformed ==
    {TextFrame, JsonFrame(Null), JsonFrame([t |-> "object", data |-> P1])}

\* the frames of the dispatcher specification
Frames == {JsonFrame(e) : e \in Events}
              \cup {TextFrame, JsonFrame(MsgData("server_notice", P1))}

\* frames with a known tag whose payload is missing or has the wrong shape:
\* match_progress without data, a leaderboard that is an object, not a list
NotAList == [t |-> "object"]

BadPayload ==
    {JsonFrame(Msg("match_progress")),
     JsonFrame([t |-> "object", type |-> "initial_state",
                tournament |-> Status("running"), leaderboard |-> NotAList]),
     JsonFrame([t |-> "object", type |-> "match_completed",
                leaderboard |-> NotAList])}

\* the frames of the connection-lifecycle specification
LifecycleFrames ==
    Malformed \cup BadPayload \cup {JsonFrame(MsgData("match_progress", P1))}

-----------------------------------------------------------------------------
(* handleWsMessage, as a function of the component's state st =           *)
(* [tournament, leaderboard, currentMatch, matchProgress, pendingGraph,   *)
(*  baseScoresRef, dataPointRef].                                          *)
NOTAG == "<no type>"
Tag(data) == IF "type" \in DOMAIN data THEN data.type ELSE NOTAG

\* leaderboard.forEach(team => baseScoresRef.current[team.id] = team.total_score)
RECURSIVE ForEachTeam(_, _)
ForEachTeam(base, items) ==
    IF items = <<>> THEN base
    ELSE ForEachTeam(Put(base, Head(items).id, Head(items).total_score), Tail(items))

\* if (lb) lb.forEach(...): skipped when lb is undefined or null; a value that
\* is not a list has no forEach, the call throws TypeError and the try/catch
\* around the handler (part_000 lines 26-32, fetchData lines 249-264) ends it
\* there; in every caller this is the last statement that changes state
BaselineFrom(base, lb) == IF lb.t = "array" THEN ForEachTeam(base, lb.items) ELSE base

\* prev => ({ ...prev, status })
WithStatus(prev, s) ==
    IF prev.t = "object"
    THEN [k \in DOMAIN prev \cup {"status"} |-> IF k = "status" THEN s ELSE prev[k]]
    ELSE Status(s)

\* the two kinds of setGraphData call: setGraphData([]) and
\* setGraphData(prevData => ...), whose function captures data.  tick and
\* base record the refs at the call (history; the function does not read them).
SetEmpty == [op |-> "set"]
Updater(d, tick, base) == [op |-> "update", data |-> d, tick |-> tick, base |-> base]

\* faulty variant: the shared case clears the accumulator as tournament_started does
StartedSharedClears(st) ==
    [st EXCEPT !.tournament = WithStatus(@, "running"),
               !.pendingGraph = Append(@, SetEmpty),
               !.dataPointRef = 0,
               !.baseScoresRef = EmptyMap]

\* case 'showdown_started', lines 167-170, which 'tournament_started' falls into
StartedShared(st) == [st EXCEPT !.tournament = WithStatus(@, "running")]

\* faulty variant: a break ends the case before the shared one
TournamentStartedBreaks(st) ==
    [st EXCEPT !.pendingGraph = Append(@, SetEmpty),
               !.dataPointRef = 0,
               !.baseScoresRef = EmptyMap]

\* case 'tournament_started', lines 161-166, falling into the shared case
TournamentStarted(st) ==
    StartedShared([st EXCEPT !.pendingGraph = Append(@, SetEmpty),
                             !.dataPointRef = 0,
                             !.baseScoresRef = EmptyMap])

\* case 'initial_state', lines 151-159
InitialState(st, data) ==
    LET lb == Field(data, "leaderboard") IN
    [st EXCEPT !.tournament = Field(data, "tournament"),
               !.leaderboard = IF Truthy(lb) THEN lb ELSE Arr(<<>>),
               !.baseScoresRef = BaselineFrom(@, lb)]

\* faulty variant: the end of a match also clears the current match
MatchCompletedClearsMatch(st, data) ==
    LET lb == Field(data, "leaderboard") IN
    [st EXCEPT !.leaderboard = lb,
               !.currentMatch = Null,
               !.matchProgress = Null,
               !.baseScoresRef = BaselineFrom(@, lb)]

\* case 'match_completed', lines 203-212
MatchCompleted(st, data) ==
    LET lb == Field(data, "leaderboard") IN
    [st EXCEPT !.leaderboard = lb,
               !.matchProgress = Null,
               !.baseScoresRef = BaselineFrom(@, lb)]

\* faulty variant: the progress of the earlier match stays
MatchStartedKeepsProgress(st, data) ==
    [st EXCEPT !.currentMatch = Field(data, "data")]

\* case 'match_started', lines 172-176
MatchStarted(st, data) ==
    [st EXCEPT !.currentMatch = Field(data, "data"),
               !.matchProgress = Null]

\* faulty variant: the tick counter advances by two
MatchProgressCountsTwice(st, data) ==
    [st EXCEPT !.matchProgress = Field(data, "data"),
               !.dataPointRef = @ + 2,
               !.pendingGraph =
                   Append(@, Updater(Field(data, "data"),
                                     st.dataPointRef + 2, st.baseScoresRef))]

\* case 'match_progress', lines 178-201: the function given to setGraphData
\* is queued, not run
MatchProgress(st, data) ==
    [st EXCEPT !.matchProgress = Field(data, "data"),
               !.dataPointRef = @ + 1,
               !.pendingGraph =
                   Append(@, Updater(Field(data, "data"),
                                     st.dataPointRef + 1, st.baseScoresRef))]

\* faulty variant: the final leaderboard also becomes the baseline
FinishedUpdatesBaseline(st, data) ==
    [st EXCEPT !.tournament = WithStatus(@, "finished"),
               !.leaderboard = Field(data, "leaderboard"),
               !.currentMatch = Null,
               !.baseScoresRef = BaselineFrom(@, Field(data, "leaderboard"))]

\* cases 'tournament_finished' and 'showdown_finished', lines 214-220
Finished(st, data) ==
    [st EXCEPT !.tournament = WithStatus(@, "finished"),
               !.leaderboard = Field(data, "leaderboard"),
               !.currentMatch = Null]

\* faulty variant: only a running tournament is paused
PausedWhenRunning(st) ==
    IF st.tournament.t = "object" /\ st.tournament.status = "running"
    THEN [st EXCEPT !.tournament = WithStatus(@, "paused")]
    ELSE st

\* case 'tournament_paused', lines 222-224
Paused(st) == [st EXCEPT !.tournament = WithStatus(@, "paused")]

\* case 'tournament_resumed', lines 226-228
Resumed(st) == [st EXCEPT !.tournament = WithStatus(@, "running")]

\* faulty variant: the tick counter is not reset
TournamentResetKeepsTick(st) ==
    [st EXCEPT !.tournament = Status("idle"),
               !.leaderboard = Arr(<<>>),
               !.currentMatch = Null,
               !.matchProgress = Null,
               !.pendingGraph = Append(@, SetEmpty),
               !.baseScoresRef = EmptyMap]

\* case 'tournament_reset', lines 230-238
TournamentReset(st) ==
    [st EXCEPT !.tournament = Status("idle"),
               !.leaderboard = Arr(<<>>),
               !.currentMatch = Null,
               !.matchProgress = Null,
               !.pendingGraph = Append(@, SetEmpty),
               !.dataPointRef = 0,
               !.baseScoresRef = EmptyMap]

\* faulty variant: a message with an unlisted tag resets the match
DefaultClearsMatch(st) == [st EXCEPT !.currentMatch = Null, !.matchProgress = Null]

\* default, lines 240-242
Default(st) == st

handleWsMessage(st, data) ==
    LET type == Tag(data)
    IN  CASE type = "initial_state" -> InitialState(st, data)
          [] type = "tournament_started" -> TournamentStarted(st)
          [] type = "showdown_started" -> StartedShared(st)
          [] type = "match_started" -> MatchStarted(st, data)
          [] type = "match_progress" -> MatchProgress(st, data)
          [] type = "match_completed" -> MatchCompleted(st, data)
          [] type \in {"tournament_finished", "showdown_finished"} -> Finished(st, data)
          [] type = "tournament_paused" -> Paused(st)
          [] type = "tournament_resumed" -> Resumed(st)
          [] type = "tournament_reset" -> TournamentReset(st)
          [] OTHER -> Default(st)

-----------------------------------------------------------------------------
(* The function given to setGraphData for match_progress, lines 182-200.  *)
(* It reads dataPointRef.current and baseScoresRef.current when it runs   *)
(* and may add entries to baseScoresRef.current.  The payload (data.data) *)
(* is an object in every match_progress frame of Events.                  *)
TeamKeys == <<"team_a", "team_b", "team_c">>

\* teamData?.id
HasId(teamData) == teamData.t = "object" /\ "id" \in DOMAIN teamData /\ teamData.id # ""
\* teamData.score || 0
ScoreOf(teamData) == IF "score" \in DOMAIN teamData THEN teamData.score ELSE 0

\* acc = [base, scores]: the refs' baseline and the point under construction
RECURSIVE ForEachTeamKey(_, _, _)
ForEachTeamKey(keys, payload, acc) ==
    IF keys = <<>> THEN acc
    ELSE LET teamData == Field(payload, Head(keys))
             base1 == IF HasId(teamData) /\ teamData.id \notin DOMAIN acc.base
                      THEN Put(acc.base, teamData.id, 0) ELSE acc.base
             next == IF HasId(teamData)
                     THEN [base |-> base1,
                           scores |-> Put(acc.scores, teamData.id,
                                          base1[teamData.id] + ScoreOf(teamData))]
                     ELSE acc
         IN  ForEachTeamKey(Tail(keys), payload, next)

\* faulty variants of the window: no slice at all, and slice(0, 100), which
\* keeps the oldest points
SlideWindowUnbounded(newData) == newData

SlideWindowKeepOldest(newData) ==
    IF Len(newData) > WINDOW THEN SubSeq(newData, 1, WINDOW) ELSE newData

\* newData.length > 100 ? newData.slice(-100) : newData
SlideWindow(newData) ==
    IF Len(newData) > WINDOW
    THEN SubSeq(newData, Len(newData) - WINDOW + 1, Len(newData))
    ELSE newData

\* faulty variant: the scores of the new point become the baseline
GraphUpdaterAccumulates(prevData, payload, base, dataPoint) ==
    LET acc == ForEachTeamKey(TeamKeys, payload, [base |-> base, scores |-> base])
        newPoint == [dataPoint |-> dataPoint, scores |-> acc.scores]
    IN  [data |-> SlideWindow(Append(prevData, newPoint)), base |-> acc.scores]

\* faulty variant: a slot without a team id is given an entry, 0, under the
\* slot's name, in the point and in the baseline
GraphUpdaterFillsSlots(prevData, payload, base, dataPoint) ==
    LET acc == ForEachTeamKey(TeamKeys, payload, [base |-> base, scores |-> base])
        empty == {TeamKeys[i] : i \in {j \in DOMAIN TeamKeys :
                                           ~HasId(Field(payload, TeamKeys[j]))}}
        fill(f) == [x \in DOMAIN f \cup empty |-> IF x \in DOMAIN f THEN f[x] ELSE 0]
        newPoint == [dataPoint |-> dataPoint, scores |-> fill(acc.scores)]
    IN  [data |-> SlideWindow(Append(prevData, newPoint)), base |-> fill(acc.base)]

\* one run of the updater: [data, base]
GraphUpdater(prevData, payload, base, dataPoint) ==
    LET acc == ForEachTeamKey(TeamKeys, payload, [base |-> base, scores |-> base])
        newPoint == [dataPoint |-> dataPoint, scores |-> acc.scores]
    IN  [data |-> SlideWindow(Append(prevData, newPoint)), base |-> acc.base]

\* a render runs the queued setGraphData calls in call order
RECURSIVE RunUpdates(_, _, _, _)
RunUpdates(queue, data, base, dataPoint) ==
    IF queue = <<>> THEN [data |-> data, base |-> base]
    ELSE LET u == Head(queue)
             r == IF u.op = "set" THEN [data |-> <<>>, base |-> base]
                  ELSE GraphUpdater(data, u.data, base, dataPoint)
         IN  RunUpdates(Tail(queue), r.data, r.base, dataPoint)

-----------------------------------------------------------------------------
(* The state after construction: the hook's refs are null, the component   *)
(* holds its useState defaults, no effect has run.                         *)
InitConn ==
    /\ mounted = "init"
    /\ sockets = <<>>
    /\ ws = 0
    /\ closePending = 0
    /\ timers = <<>>
    /\ reconnectTimeout = 0
    /\ pingInterval = [active |-> FALSE, elapsed |-> 0]
    /\ pings = 0
    /\ reachable \in BOOLEAN

InitStore ==
    /\ tournament = Status("idle")
    /\ leaderboard = Arr(<<>>)
    /\ currentMatch = Null
    /\ matchProgress = Null
    /\ graphData = <<>>
    /\ pendingGraph = <<>>
    /\ baseScoresRef = EmptyMap
    /\ dataPointRef = 0

Init ==
    /\ InitConn
    /\ InitStore
    /\ fetch = "idle"
    /\ nEvents = 0
    /\ last = [op |-> "Init"]

-----------------------------------------------------------------------------
(* useWebSocket *)
Live(s) == sockets[s].readyState \in {"CONNECTING", "OPEN"}
Pending(i) == timers[i].state = "pending"
Quiet == closePending = 0

\* faulty variant: a call of connect that overlaps another
connectTwice ==
    /\ sockets' = sockets \o <<[readyState |-> "CONNECTING"],
                               [readyState |-> "CONNECTING"]>>
    /\ ws' = Len(sockets) + 2

\* connect, lines 17-43: a new WebSocket, stored in ws.current, with its handlers
connect ==
    /\ sockets' = Append(sockets, [readyState |-> "CONNECTING"])
    /\ ws' = Len(sockets) + 1

\* faulty variant: at most one retry
oncloseCapped ==
    IF Len(timers) >= 1 THEN UNCHANGED <<timers, reconnectTimeout>>
    ELSE /\ timers' = Append(timers, [delay |-> RECONNECT_DELAY, elapsed |-> 0,
                                      state |-> "pending"])
         /\ reconnectTimeout' = Len(timers) + 1

\* faulty variant: setTimeout(connect, 0)
oncloseAtOnce ==
    /\ timers' = Append(timers, [delay |-> 0, elapsed |-> 0, state |-> "pending"])
    /\ reconnectTimeout' = Len(timers) + 1

\* ws.current.onclose, lines 35-38
onclose ==
    /\ timers' = Append(timers, [delay |-> RECONNECT_DELAY, elapsed |-> 0,
                                 state |-> "pending"])
    /\ reconnectTimeout' = Len(timers) + 1

\* faulty variant: the error handler reconnects too
onerrorReconnects ==
    /\ timers' = Append(timers, [delay |-> RECONNECT_DELAY, elapsed |-> 0,
                                 state |-> "pending"])
    /\ reconnectTimeout' = Len(timers) + 1

\* ws.current.onerror, lines 40-42: logs
onerror == UNCHANGED <<timers, reconnectTimeout>>

\* WebSocket.close(): a connection that is not yet closing starts to close
close(socks, s) ==
    IF socks[s].readyState \in {"CONNECTING", "OPEN"}
    THEN [socks EXCEPT ![s].readyState = "CLOSING"] ELSE socks

\* clearTimeout(id)
clearTimeout(tms, i) ==
    IF tms[i].state = "pending" THEN [tms EXCEPT ![i].state = "cleared"] ELSE tms

\* the mount effects: useWebSocket lines 45-52 and AudienceView lines 248-267
Mount ==
    /\ mounted = "init"
    /\ mounted' = "mounted"
    /\ connect
    /\ pingInterval' = [active |-> TRUE, elapsed |-> 0]
    /\ fetch' = "pending"
    /\ last' = [op |-> "Mount"]
    /\ UNCHANGED <<closePending, timers, reconnectTimeout, pings, reachable,
                   store, accum, nEvents>>

\* the effect cleanup, lines 54-58
Teardown ==
    /\ mounted = "mounted"
    /\ Quiet
    /\ mounted' = "unmounted"
    /\ pingInterval' = [pingInterval EXCEPT !.active = FALSE]
    /\ timers' = IF reconnectTimeout # 0 THEN clearTimeout(timers, reconnectTimeout)
                 ELSE timers
    /\ sockets' = IF ws # 0 THEN close(sockets, ws) ELSE sockets
    /\ last' = [op |-> "Teardown"]
    /\ UNCHANGED <<ws, closePending, reconnectTimeout, pings, reachable,
                   store, accum, fetch, nEvents>>

\* faulty variant: the open handler starts the page's state afresh
OnOpenResets(s) ==
    /\ Quiet
    /\ sockets[s].readyState = "CONNECTING"
    /\ reachable
    /\ sockets' = [sockets EXCEPT ![s].readyState = "OPEN"]
    /\ tournament' = Status("idle")
    /\ leaderboard' = Arr(<<>>)
    /\ currentMatch' = Null
    /\ matchProgress' = Null
    /\ graphData' = <<>>
    /\ pendingGraph' = <<>>
    /\ baseScoresRef' = EmptyMap
    /\ dataPointRef' = 0
    /\ last' = [op |-> "OnOpen", socket |-> s]
    /\ UNCHANGED <<mounted, ws, closePending, timers, reconnectTimeout,
                   pingInterval, pings, reachable, fetch, nEvents>>

\* the open event of socket s: ws.current.onopen, lines 21-23, logs
OnOpen(s) ==
    /\ Quiet
    /\ sockets[s].readyState = "CONNECTING"
    /\ reachable
    /\ sockets' = [sockets EXCEPT ![s].readyState = "OPEN"]
    /\ last' = [op |-> "OnOpen", socket |-> s]
    /\ UNCHANGED <<mounted, ws, closePending, timers, reconnectTimeout,
                   pingInterval, pings, reachable, store, accum, fetch, nEvents>>

\* a connection can still end only while another socket can be created
Budget == Len(sockets) < MaxSockets

\* the connection of socket s fails: the browser sets it CLOSED and fires the
\* error event, then (same task) the close event
OnError(s) ==
    /\ Quiet
    /\ Budget
    /\ \/ sockets[s].readyState \in {"OPEN", "CLOSING"}
       \/ sockets[s].readyState = "CONNECTING" /\ ~reachable
    /\ sockets' = [sockets EXCEPT ![s].readyState = "CLOSED"]
    /\ closePending' = s
    /\ onerror
    /\ last' = [op |-> "OnError", socket |-> s]
    /\ UNCHANGED <<mounted, ws, pingInterval, pings, reachable,
                   store, accum, fetch, nEvents>>

\* the close event of socket s, after its error event or on a clean close
OnClose(s) ==
    /\ \/ closePending = s
       \/ Quiet /\ Budget /\ sockets[s].readyState \in {"OPEN", "CLOSING"}
    /\ sockets' = [sockets EXCEPT ![s].readyState = "CLOSED"]
    /\ closePending' = 0
    /\ onclose
    /\ last' = [op |-> "OnClose", socket |-> s, afterError |-> (closePending = s)]
    /\ UNCHANGED <<mounted, ws, pingInterval, pings, reachable,
                   store, accum, fetch, nEvents>>

\* the timer i set by onclose fires: connect runs
ReconnectFire(i) ==
    /\ Quiet
    /\ Pending(i)
    /\ timers[i].elapsed >= timers[i].delay
    /\ Len(sockets) < MaxSockets
    /\ timers' = [timers EXCEPT ![i].state = "fired"]
    /\ connect
    /\ last' = [op |-> "ReconnectFire", timer |-> i]
    /\ UNCHANGED <<mounted, closePending, reconnectTimeout, pingInterval, pings,
                   reachable, store, accum, fetch, nEvents>>

\* faulty variant: no readyState test
ShouldPingAnyState == ws # 0

\* ws.current && ws.current.readyState === WebSocket.OPEN
ShouldPing == ws # 0 /\ sockets[ws].readyState = "OPEN"

\* the keepalive interval fires, lines 48-52
PingFire ==
    /\ Quiet
    /\ pingInterval.active
    /\ pingInterval.elapsed >= PING_INTERVAL
    /\ pingInterval' = [pingInterval EXCEPT !.elapsed = 0]
    /\ IF ShouldPing
       THEN pings < MaxPings /\ pings' = pings + 1
       ELSE pings' = pings
    /\ last' = [op |-> "PingFire"]
    /\ UNCHANGED <<mounted, sockets, ws, closePending, timers, reconnectTimeout,
                   reachable, store, accum, fetch, nEvents>>

\* time passes, up to the next deadline
Deadlines ==
    {timers[i].delay - timers[i].elapsed :
        i \in {j \in DOMAIN timers : Pending(j) /\ timers[j].elapsed < timers[j].delay}}
    \cup (IF pingInterval.active /\ pingInterval.elapsed < PING_INTERVAL
          THEN {PING_INTERVAL - pingInterval.elapsed} ELSE {})

Advance ==
    /\ Quiet
    /\ Deadlines # {}
    /\ LET d == SetMin(Deadlines) IN
        /\ timers' = [i \in DOMAIN timers |->
                        IF Pending(i)
                        THEN [timers[i] EXCEPT !.elapsed = Min(timers[i].delay, @ + d)]
                        ELSE timers[i]]
        /\ pingInterval' = IF pingInterval.active
                           THEN [pingInterval EXCEPT !.elapsed = Min(PING_INTERVAL, @ + d)]
                           ELSE pingInterval
    /\ last' = [op |-> "Advance"]
    /\ UNCHANGED <<mounted, sockets, ws, closePending, reconnectTimeout, pings,
                   reachable, store, accum, fetch, nEvents>>

\* environment: the server becomes reachable / unreachable
ServerUp ==
    /\ Quiet
    /\ ~reachable
    /\ reachable' = TRUE
    /\ last' = [op |-> "ServerUp"]
    /\ UNCHANGED <<mounted, sockets, ws, closePending, timers, reconnectTimeout,
                   pingInterval, pings, store, accum, fetch, nEvents>>

ServerDown ==
    /\ Quiet
    /\ reachable
    /\ reachable' = FALSE
    /\ last' = [op |-> "ServerDown"]
    /\ UNCHANGED <<mounted, sockets, ws, closePending, timers, reconnectTimeout,
                   pingInterval, pings, store, accum, fetch, nEvents>>

-----------------------------------------------------------------------------
(* AudienceView *)
Component ==
    [tournament |-> tournament, leaderboard |-> leaderboard,
     currentMatch |-> currentMatch, matchProgress |-> matchProgress,
     pendingGraph |-> pendingGraph, baseScoresRef |-> baseScoresRef,
     dataPointRef |-> dataPointRef]

\* faulty variant: a message without a type is taken for match_progress
\* when it carries data
onmessageByShape(st, frame) ==
    LET parsed == JSONparse(frame) IN
    IF ~parsed.ok THEN st
    ELSE IF parsed.value.t # "object" THEN st
    ELSE IF "type" \notin DOMAIN parsed.value /\ "data" \in DOMAIN parsed.value
    THEN handleWsMessage(st, MsgData("match_progress", parsed.value.data))
    ELSE handleWsMessage(st, parsed.value)

\* ws.current.onmessage, part_000 lines 25-33: parse, call the handler, and
\* catch whatever either throws (JSON.parse on text, data.type on null)
onmessage(st, frame) ==
    LET parsed == JSONparse(frame) IN
    IF ~parsed.ok THEN st
    ELSE IF parsed.value.t # "object" THEN st
    ELSE handleWsMessage(st, parsed.value)

\* a frame arrives on socket s.  The refs are plain objects; the state
\* setters of a component that is no longer mounted have no effect.
Deliver(s, frame) ==
    /\ Quiet
    /\ sockets[s].readyState = "OPEN"
    /\ LET r == onmessage(Component, frame)
           on == mounted = "mounted"
       IN /\ tournament' = IF on THEN r.tournament ELSE tournament
          /\ leaderboard' = IF on THEN r.leaderboard ELSE leaderboard
          /\ currentMatch' = IF on THEN r.currentMatch ELSE currentMatch
          /\ matchProgress' = IF on THEN r.matchProgress ELSE matchProgress
          /\ pendingGraph' = IF on THEN r.pendingGraph ELSE pendingGraph
          /\ baseScoresRef' = r.baseScoresRef
          /\ dataPointRef' = r.dataPointRef
    /\ nEvents' = nEvents + 1
    /\ last' = [op |-> "OnMessage", socket |-> s, frame |-> frame]
    /\ UNCHANGED <<conn, graphData, fetch>>

\* a frame arrives, within the bounds on frames and on queued calls
OnMessage(s, frame) ==
    /\ nEvents < MaxEvents
    /\ Len(pendingGraph) < MaxPending
    /\ Deliver(s, frame)

\* what makes the next render throw: data.data[teamKey] in a queued updater
\* whose message had no data (line 191), tournament.status on a tournament
\* that is undefined or null (line 288), leaderboard.forEach in
\* ScoreProgressChart (lines 126-128) on a leaderboard that is neither
\* empty nor a list
RenderThrows ==
    \/ \E j \in DOMAIN pendingGraph :
           pendingGraph[j].op = "update" /\ ~Truthy(pendingGraph[j].data)
    \/ ~Truthy(tournament)
    \/ Truthy(leaderboard) /\ leaderboard.t # "array"

\* React renders the component: the queued setGraphData calls run
Render ==
    /\ Quiet
    /\ mounted = "mounted"
    /\ ~RenderThrows
    /\ pendingGraph # <<>>
    /\ LET r == RunUpdates(pendingGraph, graphData, baseScoresRef, dataPointRef) IN
        /\ graphData' = r.data
        /\ baseScoresRef' = r.base
    /\ pendingGraph' = <<>>
    /\ last' = [op |-> "Render"]
    /\ UNCHANGED <<conn, store, dataPointRef, fetch, nEvents>>

\* the render throws: React unmounts the tree, which runs the cleanup of the
\* hook's effect (part_000 lines 54-58) as Teardown does
RenderCrash ==
    /\ Quiet
    /\ mounted = "mounted"
    /\ RenderThrows
    /\ mounted' = "unmounted"
    /\ pingInterval' = [pingInterval EXCEPT !.active = FALSE]
    /\ timers' = IF reconnectTimeout # 0 THEN clearTimeout(timers, reconnectTimeout)
                 ELSE timers
    /\ sockets' = IF ws # 0 THEN close(sockets, ws) ELSE sockets
    /\ last' = [op |-> "RenderCrash"]
    /\ UNCHANGED <<ws, closePending, reconnectTimeout, pings, reachable,
                   store, accum, fetch, nEvents>>

\* fetchData, lines 249-265: both requests succeeded
SnapshotStatus == {Status("running")}
SnapshotLeaderboards == {Undef, Arr(LB1)}

FetchResolve(statusData, lbData) ==
    /\ Quiet
    /\ fetch = "pending"
    /\ fetch' = "done"
    /\ tournament' = IF mounted = "mounted" THEN statusData ELSE tournament
    /\ leaderboard' = IF mounted = "mounted" THEN lbData ELSE leaderboard
    /\ baseScoresRef' = BaselineFrom(baseScoresRef, lbData)
    /\ last' = [op |-> "FetchResolve", status |-> statusData, leaderboard |-> lbData]
    /\ UNCHANGED <<conn, currentMatch, matchProgress, graphData, pendingGraph,
                   dataPointRef, nEvents>>

\* which of the two requests of Promise.all is rejected
FailedRequests == {"status", "leaderboard"}

\* faulty variant: the requests are awaited one after the other, and the
\* status is stored before the leaderboard request fails
FetchRejectPartial(failed) ==
    /\ Quiet
    /\ fetch = "pending"
    /\ fetch' = "failed"
    /\ tournament' = IF failed = "leaderboard" /\ mounted = "mounted"
                     THEN Status("running") ELSE tournament
    /\ last' = [op |-> "FetchReject", failed |-> failed]
    /\ UNCHANGED <<conn, leaderboard, currentMatch, matchProgress, accum, nEvents>>

\* fetchData: a request failed, Promise.all rejects (lines 251-254) and the
\* catch logs (lines 262-264)
FetchReject(failed) ==
    /\ Quiet
    /\ fetch = "pending"
    /\ fetch' = "failed"
    /\ last' = [op |-> "FetchReject", failed |-> failed]
    /\ UNCHANGED <<conn, store, accum, nEvents>>

-----------------------------------------------------------------------------
(* The admin controls: pauseTournament and resumeTournament, lines 104-146. *)
(* They write nothing to the store; what they show is recorded in last.     *)
Str(v) == [t |-> "string", v |-> v]

\* what localStorage holds under 'algowar_admin_password'
StoredPasswords == {Null, Str(""), Str("secret")}

\* localStorage.getItem('algowar_admin_password') || null
getAdminPassword(item) == IF Truthy(item) /\ item.v # "" THEN item ELSE Null

\* how axios.post ends: fulfilled, rejected with a response of some status,
\* or rejected without a response (network error, timeout)
Fulfilled == [t |-> "fulfilled"]
Rejected(status) == [t |-> "rejected", response |-> [t |-> "object", status |-> status]]
NoResponse == [t |-> "rejected", response |-> Undef]
Outcomes == {Fulfilled, NoResponse} \cup {Rejected(c) : c \in {401, 403, 500}}

ToastSuccess(text) == [kind |-> "success", text |-> text]
ToastError(text) == [kind |-> "error", text |-> text]

AdminActions == {"pause", "resume"}
LOGIN_FIRST == "Admin access required. Login via Admin Panel first."
INVALID_PASSWORD == "Invalid admin password. Please re-login."
DoneText(action) == IF action = "pause" THEN "Tournament paused" ELSE "Tournament resumed"
FailedText(action) == IF action = "pause" THEN "Failed to pause" ELSE "Failed to resume"

\* faulty variant: the status is read from the error, not from its response
AdminToastReadsErrorStatus(action, password, outcome) ==
    IF ~Truthy(password) THEN ToastError(LOGIN_FIRST)
    ELSE IF outcome.t = "fulfilled" THEN ToastSuccess(DoneText(action))
    ELSE IF "status" \in DOMAIN outcome /\ outcome.status = 401
    THEN ToastError(INVALID_PASSWORD)
    ELSE ToastError(FailedText(action))

\* the toast of pauseTournament (lines 108-126) / resumeTournament (128-146)
AdminToast(action, password, outcome) ==
    IF ~Truthy(password) THEN ToastError(LOGIN_FIRST)
    ELSE IF outcome.t = "fulfilled" THEN ToastSuccess(DoneText(action))
    ELSE IF Truthy(outcome.response) /\ outcome.response.status = 401
    THEN ToastError(INVALID_PASSWORD)
    ELSE ToastError(FailedText(action))

\* the button of the action is rendered (lines 308, 321)
ButtonShown(action) ==
    /\ Truthy(tournament)
    /\ "status" \in DOMAIN tournament
    /\ tournament.status = (IF action = "pause" THEN "running" ELSE "paused")

\* faulty variant: a request that succeeds sets the status at once
AdminClickSetsStatus(action, item, outcome) ==
    /\ mounted = "mounted"
    /\ ButtonShown(action)
    /\ LET password == getAdminPassword(item) IN
        /\ last' = [op |-> "AdminClick", action |-> action,
                    requested |-> Truthy(password),
                    outcome |-> IF Truthy(password) THEN outcome ELSE Undef,
                    toast |-> AdminToast(action, password, outcome)]
        /\ tournament' = IF Truthy(password) /\ outcome = Fulfilled
                         THEN WithStatus(tournament,
                                         IF action = "pause" THEN "paused" ELSE "running")
                         ELSE tournament
    /\ UNCHANGED <<conn, leaderboard, currentMatch, matchProgress, accum, fetch,
                   nEvents>>

\* a click on the button, up to the toast; the request is made only with a
\* password
AdminClick(action, item, outcome) ==
    /\ mounted = "mounted"
    /\ ButtonShown(action)
    /\ LET password == getAdminPassword(item) IN
        last' = [op |-> "AdminClick", action |-> action,
                 requested |-> Truthy(password),
                 outcome |-> IF Truthy(password) THEN outcome ELSE Undef,
                 toast |-> AdminToast(action, password, outcome)]
    /\ UNCHANGED <<conn, store, accum, fetch, nEvents>>

pauseTournament == \E item \in StoredPasswords, o \in Outcomes : AdminClick("pause", item, o)
resumeTournament == \E item \in StoredPasswords, o \in Outcomes : AdminClick("resume", item, o)

-----------------------------------------------------------------------------
Lifecycle ==
    \/ Mount
    \/ Teardown
    \/ \E s \in DOMAIN sockets : OnOpen(s)
    \/ \E s \in DOMAIN sockets : OnError(s)
    \/ \E s \in DOMAIN sockets : OnClose(s)
    \/ \E i \in DOMAIN timers : ReconnectFire(i)
    \/ PingFire
    \/ Advance
    \/ ServerUp
    \/ ServerDown

\* the whole lifecycle of the hook, from construction, with a few frames; the
\* response to the snapshot requests is still outstanding (SpecStore has it)
Next ==
    \/ Lifecycle
    \/ \E s \in DOMAIN sockets : \E f \in LifecycleFrames : OnMessage(s, f)
    \/ Render
    \/ RenderCrash

Spec == Init /\ [][Next]_vars

\* the hook without teardown, under fair timers: time passes, a due timer
\* fires, the close event follows its error event, and a handshake with a
\* reachable server completes.  The server, once reachable, stays so.
NextLive ==
    \/ Mount
    \/ \E s \in DOMAIN sockets : OnOpen(s)
    \/ \E s \in DOMAIN sockets : OnError(s)
    \/ \E s \in DOMAIN sockets : OnClose(s)
    \/ \E i \in DOMAIN timers : ReconnectFire(i)
    \/ PingFire
    \/ Advance
    \/ ServerUp

LiveSpec ==
    /\ Init
    /\ [][NextLive]_vars
    /\ WF_vars(Mount)
    /\ WF_vars(Advance)
    /\ WF_vars(\E i \in DOMAIN timers : ReconnectFire(i))
    /\ WF_vars(\E s \in DOMAIN sockets : OnOpen(s))
    /\ WF_vars(\E s \in DOMAIN sockets : closePending = s /\ OnClose(s))

-----------------------------------------------------------------------------
(* The dispatcher and the accumulator on an open connection.  The time    *)
(* series starts empty or as n deliveries of a match_progress frame       *)
(* without participants leave it (each rendered, no baseline known): n    *)
(* points, ticks 1..n.                                                    *)
Preloads == {0, WINDOW - 1, WINDOW}

Preloaded(n) == [i \in 1..n |-> [dataPoint |-> i, scores |-> EmptyMap]]

InitStoreSpec ==
    /\ mounted = "mounted"
    /\ sockets = <<[readyState |-> "OPEN"]>>
    /\ ws = 1
    /\ closePending = 0
    /\ timers = <<>>
    /\ reconnectTimeout = 0
    /\ pingInterval = [active |-> TRUE, elapsed |-> 0]
    /\ pings = 0
    /\ reachable = TRUE
    /\ tournament = Status("idle")
    /\ leaderboard = Arr(<<>>)
    /\ currentMatch = Null
    /\ matchProgress = Null
    /\ \E n \in Preloads : graphData = Preloaded(n) /\ dataPointRef = n
    /\ pendingGraph = <<>>
    /\ baseScoresRef = EmptyMap
    /\ fetch = "pending"
    /\ nEvents = 0
    /\ last = [op |-> "Init"]

NextStore ==
    \/ \E f \in Frames : OnMessage(1, f)
    \/ Render
    \/ \E st \in SnapshotStatus : \E lb \in SnapshotLeaderboards : FetchResolve(st, lb)
    \/ \E failed \in FailedRequests : FetchReject(failed)

SpecStore == InitStoreSpec /\ [][NextStore]_vars

-----------------------------------------------------------------------------
(* One tournament with one match, on an open connection: the snapshot     *)
(* reports two teams without points, then the stream delivers             *)
(* tournament_started, match_started, three match_progress frames with    *)
(* growing scores and match_completed.  Renders come whenever React       *)
(* schedules them.                                                         *)
LB0 == <<Team("A", 0), Team("B", 0)>>
LB73 == <<Team("A", 7), Team("B", 3)>>
MatchAB == [t |-> "object", match_number |-> 1, team_a |-> "A", team_b |-> "B"]
Deltas == 1..5
Progress(a) == [t |-> "object", team_a |-> Slot("A", a), team_b |-> Slot("B", a \div 2)]

\* team A's score in the last match_progress payload (0 before the first)
PrevDelta == IF matchProgress.t = "object" THEN matchProgress.team_a.score ELSE 0

\* the frames the stream may deliver next, nEvents frames having arrived
ScenarioFrames ==
    CASE nEvents = 0 -> {JsonFrame(Msg("tournament_started"))}
      [] nEvents = 1 -> {JsonFrame(MsgData("match_started", MatchAB))}
      [] nEvents \in 2..4 ->
            {JsonFrame(MsgData("match_progress", Progress(a))) :
                 a \in {x \in Deltas : x > PrevDelta /\ x + (4 - nEvents) <= 5}}
      [] nEvents = 5 -> {JsonFrame(MsgLb("match_completed", LB73))}
      [] OTHER -> {}

ScenarioStep ==
    /\ fetch = "done"
    /\ \E f \in ScenarioFrames : Deliver(1, f)

InitScenario ==
    /\ mounted = "mounted"
    /\ sockets = <<[readyState |-> "OPEN"]>>
    /\ ws = 1
    /\ closePending = 0
    /\ timers = <<>>
    /\ reconnectTimeout = 0
    /\ pingInterval = [active |-> TRUE, elapsed |-> 0]
    /\ pings = 0
    /\ reachable = TRUE
    /\ InitStore
    /\ fetch = "pending"
    /\ nEvents = 0
    /\ last = [op |-> "Init"]

NextScenario ==
    \/ FetchResolve(Status("idle"), Arr(LB0))
    \/ ScenarioStep
    \/ Render

SpecScenario == InitScenario /\ [][NextScenario]_vars

-----------------------------------------------------------------------------
(* The admin controls on the mounted page, while the stream reports the   *)
(* tournament starting, pausing, resuming and being reset.                 *)
AdminFrames ==
    {JsonFrame(Msg(tg)) : tg \in {"tournament_started", "tournament_paused",
                                  "tournament_resumed", "tournament_reset"}}

NextAdmin ==
    \/ pauseTournament
    \/ resumeTournament
    \/ \E f \in AdminFrames : OnMessage(1, f)
    \/ Render

SpecAdmin == InitScenario /\ [][NextAdmin]_vars

-----------------------------------------------------------------------------
(* The stream on the mounted page, with events that end a match or the    *)
(* tournament and carry no leaderboard.                                    *)
NoLeaderboardFrames ==
    {JsonFrame(Msg(tg)) : tg \in {"match_completed", "tournament_finished",
                                  "showdown_finished"}}
    \cup {JsonFrame([t |-> "object", type |-> "initial_state",
                     tournament |-> Status("running"), leaderboard |-> Arr(LB1)]),
          JsonFrame(MsgData("match_started", Match1)),
          JsonFrame(MsgData("match_progress", P1)),
          JsonFrame(MsgLb("match_completed", LB2))}

NextNoLeaderboard ==
    \/ \E f \in NoLeaderboardFrames : OnMessage(1, f)
    \/ Render

SpecNoLeaderboard == InitScenario /\ [][NextNoLeaderboard]_vars

-----------------------------------------------------------------------------
(* Properties *)

\* the queued calls are all updater functions (no setGraphData([]) among them)
OnlyUpdaters == \A j \in DOMAIN pendingGraph : pendingGraph[j].op = "update"

\* C1: in every reachable state the score time series holds at most 100
\* points, whatever frames were dispatched.
C1_WindowBound == Len(graphData) <= WINDOW

\* C1 witness: a render has just evicted a point from a full window.
C1_Witness ==
    /\ last.op = "Render"
    /\ Len(graphData) = WINDOW
    /\ graphData[1].dataPoint > 1

\* C2: when the update of a match_progress event runs on a time series of
\* 100 points, the result is the previous points 2..100 in their order
\* followed by the new point; with k updates queued the oldest k points go
\* and the others keep their order.
C2_FifoEviction ==
    [][(last'.op = "Render" /\ Len(graphData) = WINDOW /\ OnlyUpdaters) =>
          LET k == Len(pendingGraph) IN
          /\ Len(graphData') = WINDOW
          /\ \A i \in 1..(WINDOW - k) : graphData'[i] = graphData[i + k]
          /\ graphData'[WINDOW].dataPoint = dataPointRef
          /\ k = 1 => SubSeq(graphData', 1, WINDOW - 1) = SubSeq(graphData, 2, WINDOW)
      ]_vars

\* C2 witness: exactly the oldest point of a full window was evicted.
C2_Witness ==
    /\ last.op = "Render"
    /\ Len(graphData) = WINDOW
    /\ graphData[1].dataPoint = 2
    /\ graphData[WINDOW].dataPoint = WINDOW + 1
    /\ graphData[WINDOW - 1].dataPoint = WINDOW

\* C3 (as claimed): once the owning context is destroyed, no new connection
\* is opened and no reconnect timer is scheduled.
C3_NoReconnectAfterTeardown ==
    [][mounted = "unmounted" =>
          /\ Len(sockets') = Len(sockets)
          /\ Len(timers') = Len(timers)]_vars

\* sockets whose close event has been delivered
Closed == {s \in DOMAIN sockets : sockets[s].readyState = "CLOSED" /\ closePending # s}

\* C4: every close event schedules exactly one reconnect timer, of 3000 ms,
\* and opens nothing itself; an error event schedules nothing; connect runs
\* only at mount or when such a timer fires, after its 3000 ms have elapsed,
\* and each timer fires once.
C4_OneReconnectPerClose ==
    [][/\ last'.op = "OnClose" =>
            /\ timers' = Append(timers, [delay |-> RECONNECT_DELAY, elapsed |-> 0,
                                         state |-> "pending"])
            /\ Len(sockets') = Len(sockets)
       /\ last'.op = "OnError" => timers' = timers /\ Len(sockets') = Len(sockets)
       /\ Len(timers') # Len(timers) => last'.op = "OnClose"
       /\ Len(sockets') # Len(sockets) =>
            /\ Len(sockets') = Len(sockets) + 1
            /\ \/ last'.op = "Mount"
               \/ /\ last'.op = "ReconnectFire"
                  /\ timers[last'.timer].state = "pending"
                  /\ timers[last'.timer].elapsed >= RECONNECT_DELAY
                  /\ timers'[last'.timer].state = "fired"
       /\ Len(timers') = Cardinality({s \in DOMAIN sockets' :
                             sockets'[s].readyState = "CLOSED" /\ closePending' # s})
      ]_vars

\* C4 witness: a second connection failed (error, then close) after the first
\* close was followed by its reconnect: two timers for two closes.
C4_Witness ==
    /\ last.op = "OnClose"
    /\ last.afterError
    /\ Len(timers) = 2
    /\ timers[1].state = "fired"
    /\ timers[2].state = "pending"
    /\ Len(sockets) = 2

C7_PingOnlyWhenOpen ==
    [][last'.op = "PingFire" =>
          IF ws # 0 /\ sockets[ws].readyState = "OPEN"
          THEN pings' = pings + 1
          ELSE /\ pings' = pings
               /\ UNCHANGED <<mounted, sockets, ws, closePending, timers,
                              reconnectTimeout, reachable, store, accum,
                              fetch, nEvents>>
      ]_vars

\* C7 witness: the timer fired on a connection that is not Open, after an
\* earlier tick sent a ping.
C7_Witness ==
    /\ last.op = "PingFire"
    /\ pings = 1
    /\ sockets[ws].readyState # "OPEN"

\* C8: a frame that is not JSON, or is JSON without a type tag, changes
\* nothing of the store or the accumulator, closes no connection and
\* schedules no reconnect.
C8_MalformedFrameIgnored ==
    [][(last'.op = "OnMessage" /\ last'.frame \in Malformed) =>
          UNCHANGED <<store, accum, conn>>]_vars

\* C8 witness: a malformed frame arrived after a point was recorded and the
\* connection is still open.
C8_Witness ==
    /\ last.op = "OnMessage"
    /\ last.frame \in Malformed
    /\ sockets[last.socket].readyState = "OPEN"
    /\ graphData # <<>>
    /\ baseScoresRef # EmptyMap

\* C6: reconnection has no retry cap and no backoff: every timer ever set
\* has the delay 3000 ms, every closed connection has had its reconnect
\* scheduled however many attempts failed before it, and once the server is
\* reachable a connection eventually is Open.
C6_ReconnectsForever ==
    /\ [](\A i \in DOMAIN timers : timers[i].delay = RECONNECT_DELAY)
    /\ [](Quiet => Len(timers) = Cardinality(Closed))
    /\ (reachable ~> \E s \in DOMAIN sockets : sockets[s].readyState = "OPEN")

\* C6 witness: the server has never been reachable, two attempts have failed
\* one after the other, and the timer of the second has just made a third.
C6_Witness ==
    /\ ~reachable
    /\ last.op = "ReconnectFire"
    /\ Len(sockets) = 3
    /\ sockets[1].readyState = "CLOSED"
    /\ sockets[2].readyState = "CLOSED"
    /\ sockets[3].readyState = "CONNECTING"
    /\ timers[2].delay = RECONNECT_DELAY

\* the participant slots of a match_progress payload that carry a team id
SlotsWithId(d) == {k \in {"team_a", "team_b", "team_c"} : HasId(Field(d, k))}

\* in a Render step, the point appended for the j-th queued updater
AppendedPoint(j) == graphData'[Len(graphData') - Len(pendingGraph) + j]

\* C9 (as claimed): for every match_progress event and every participant
\* with a team id, the appended point's value for the team is the team's
\* baseline at dispatch plus the score in the payload.
C9_BaselineAtDispatchPlusDelta ==
    [][(last'.op = "Render" /\ OnlyUpdaters) =>
          \A j \in DOMAIN pendingGraph :
              LET u == pendingGraph[j] IN
              \A k \in SlotsWithId(u.data) :
                  LET td == u.data[k] IN
                  td.id \in DOMAIN u.base =>
                      AppendedPoint(j).scores[td.id] = u.base[td.id] + ScoreOf(td)
      ]_vars

\* C9, restricted to updaters that run while the baseline is still the one
\* of their dispatch (the render comes before any other frame or snapshot).
C9_WhenRenderedAtOnce ==
    [][(last'.op = "Render" /\ Len(pendingGraph) = 1 /\ OnlyUpdaters
          /\ pendingGraph[1].base = baseScoresRef) =>
          LET u == pendingGraph[1] IN
          \A k \in SlotsWithId(u.data) :
              LET td == u.data[k] IN
              td.id \in DOMAIN u.base =>
                  Last(graphData').scores[td.id] = u.base[td.id] + ScoreOf(td)
      ]_vars

\* C10 (as claimed): a match_progress event naming a team that has no
\* baseline entry sets the team's baseline to 0 and records 0 plus its score.
C10_UnknownTeamStartsAtZero ==
    [][(last'.op = "Render" /\ OnlyUpdaters) =>
          \A j \in DOMAIN pendingGraph :
              LET u == pendingGraph[j] IN
              \A k \in SlotsWithId(u.data) :
                  LET td == u.data[k] IN
                  td.id \notin DOMAIN u.base =>
                      /\ td.id \in DOMAIN baseScoresRef'
                      /\ baseScoresRef'[td.id] = 0
                      /\ AppendedPoint(j).scores[td.id] = ScoreOf(td)
      ]_vars

\* C10, restricted as C9_WhenRenderedAtOnce.
C10_WhenRenderedAtOnce ==
    [][(last'.op = "Render" /\ Len(pendingGraph) = 1 /\ OnlyUpdaters
          /\ pendingGraph[1].base = baseScoresRef) =>
          LET u == pendingGraph[1] IN
          \A k \in SlotsWithId(u.data) :
              LET td == u.data[k] IN
              td.id \notin DOMAIN u.base =>
                  /\ td.id \in DOMAIN baseScoresRef'
                  /\ baseScoresRef'[td.id] = 0
                  /\ Last(graphData').scores[td.id] = ScoreOf(td)
      ]_vars

\* the type tag of the message a frame decodes to
FrameTag(frame) ==
    IF frame.json /\ frame.value.t = "object" THEN Tag(frame.value) ELSE NOTAG

\* the step just taken dispatched a message with this tag
Dispatched(tag) == last.op = "OnMessage" /\ FrameTag(last.frame) = tag

\* C11: a showdown_started event sets the status to running and leaves the
\* time series (the rendered points and the queued calls), the tick counter
\* and the baseline as they were, also when the series is not empty.
C11_ShowdownKeepsSeries ==
    [][Dispatched("showdown_started")' =>
          /\ tournament'.status = "running"
          /\ UNCHANGED <<graphData, pendingGraph, dataPointRef, baseScoresRef>>
      ]_vars

\* C11 witness: showdown_started was dispatched while the series held points,
\* a call was queued and the baseline had entries.
C11_Witness ==
    /\ Dispatched("showdown_started")
    /\ tournament.status = "running"
    /\ graphData # <<>>
    /\ pendingGraph # <<>>
    /\ baseScoresRef # EmptyMap
    /\ dataPointRef > 0

\* the value of the graphData state that the setGraphData calls made so far
\* determine: the rendered series with the queued calls applied
SeriesOf(st) ==
    RunUpdates(st.pendingGraph, graphData, st.baseScoresRef, st.dataPointRef).data

Series == SeriesOf(Component)

View(st) ==
    [tournament |-> st.tournament, leaderboard |-> st.leaderboard,
     currentMatch |-> st.currentMatch, matchProgress |-> st.matchProgress,
     series |-> SeriesOf(st), dataPointRef |-> st.dataPointRef,
     baseScoresRef |-> st.baseScoresRef]

Cleared ==
    [tournament |-> Status("idle"), leaderboard |-> Arr(<<>>),
     currentMatch |-> Null, matchProgress |-> Null, series |-> <<>>,
     dataPointRef |-> 0, baseScoresRef |-> EmptyMap]

C14_EndToEnd ==
    nEvents = 6 =>
        /\ leaderboard = Arr(LB73)
        /\ Len(Series) = 3
        /\ \A i \in 1..3 : Series[i].dataPoint = i

\* C14 without the ticks: the leaderboard and the number of points.
C14_LeaderboardAndCount ==
    nEvents = 6 => leaderboard = Arr(LB73) /\ Len(Series) = 3

\* C15 (as claimed): a frame with a known tag and a missing or wrongly
\* shaped payload changes nothing of the connection when it is dispatched,
\* and afterwards, unless the page is left, the network fails or the server
\* closes, its connection stays open, no reconnect is scheduled and the component keeps
\* receiving frames.
C15_BadPayloadAbsorbed ==
    /\ [][(last'.op = "OnMessage" /\ last'.frame \in BadPayload) =>
              UNCHANGED conn]_vars
    /\ [][(/\ last.op = "OnMessage"
           /\ last.frame \in BadPayload
           /\ mounted = "mounted"
           /\ sockets[last.socket].readyState = "OPEN"
           /\ last'.op \notin {"Teardown", "OnError", "OnClose"}) =>
              /\ sockets'[last.socket].readyState = "OPEN"
              /\ Len(timers') = Len(timers)
              /\ mounted' = "mounted"
          ]_vars

\* C15, the dispatch alone: the try/catch of onmessage absorbs what the
\* handler throws, and the connection is untouched by the step.
C15_DispatchAbsorbs ==
    [][(last'.op = "OnMessage" /\ last'.frame \in BadPayload) =>
          UNCHANGED conn]_vars

\* the frame decodes to a message whose tag is none of the listed ones
UnknownTag(frame) ==
    /\ frame.json
    /\ frame.value.t = "object"
    /\ "type" \in DOMAIN frame.value
    /\ frame.value.type \notin KnownTags

\* C16: a message with an unlisted tag changes neither the tournament, the
\* leaderboard, the current match, the match progress, the baseline, the
\* tick counter nor the time series (rendered or queued), and the connection
\* is untouched.
C16_UnknownTagNoOp ==
    [][(last'.op = "OnMessage" /\ UnknownTag(last'.frame)) =>
          UNCHANGED <<store, accum, conn>>]_vars

\* C16 witness: a message with an unlisted tag was dispatched while a match
\* was shown, a point was rendered and an updater was queued.
C16_Witness ==
    /\ last.op = "OnMessage"
    /\ UnknownTag(last.frame)
    /\ matchProgress # Null
    /\ graphData # <<>>
    /\ pendingGraph # <<>>
    /\ baseScoresRef # EmptyMap
    /\ sockets[last.socket].readyState = "OPEN"

\* C17: when the snapshot fetch fails, whichever request failed, the
\* tournament, the leaderboard and the baseline (and the rest of the store
\* and the accumulator) keep their values, and no request is issued again:
\* the fetch stays failed and no response is applied later.
C17_FailedSnapshotChangesNothing ==
    /\ [][last'.op = "FetchReject" => UNCHANGED <<store, accum>>]_vars
    /\ [][fetch = "failed" =>
              fetch' = "failed" /\ last'.op \notin {"FetchResolve", "FetchReject"}]_vars

\* C17 witness: the leaderboard request has just failed, after the stream
\* had delivered a leaderboard and the tournament had been paused.
C17_Witness ==
    /\ fetch = "failed"
    /\ last.op = "FetchReject"
    /\ last.failed = "leaderboard"
    /\ leaderboard = Arr(LB1)
    /\ baseScoresRef # EmptyMap
    /\ tournament.status = "paused"

\* C18: a pause or resume request that fails with status 401 shows the
\* invalid-password message, a request that fails in any other way shows
\* the failure message of its action, and neither message is shown in the
\* other case.
C18_AuthFailureDistinct ==
    (last.op = "AdminClick" /\ last.requested /\ last.outcome.t = "rejected") =>
        LET unauthorized == /\ Truthy(last.outcome.response)
                            /\ last.outcome.response.status = 401
        IN  /\ last.toast.kind = "error"
            /\ unauthorized <=> last.toast.text = INVALID_PASSWORD
            /\ ~unauthorized <=> last.toast.text = FailedText(last.action)

\* C18 witness: a resume request with a stored password was answered 401 and
\* the invalid-password message is shown.
C18_Witness ==
    /\ last.op = "AdminClick"
    /\ last.action = "resume"
    /\ last.requested
    /\ last.outcome = Rejected(401)
    /\ last.toast = ToastError(INVALID_PASSWORD)
    /\ tournament.status = "paused"

\* the team ids of a leaderboard and the total of a team in it
Ids(lb) == {lb.items[i].id : i \in DOMAIN lb.items}
TotalOf(lb, id) == lb.items[CHOOSE i \in DOMAIN lb.items : lb.items[i].id = id].total_score

\* C19 (as claimed): in the state an initial_state event leaves, the
\* tournament is the payload's, the leaderboard is the payload's (empty when
\* it has none), and the baseline holds exactly the teams of the payload's
\* leaderboard, each with its total: no other entry survives.
C19_InitialStateReinitializes ==
    Dispatched("initial_state") =>
        LET p == last.frame.value
            lb == Field(p, "leaderboard")
        IN  /\ tournament = Field(p, "tournament")
            /\ leaderboard = (IF Truthy(lb) THEN lb ELSE Arr(<<>>))
            /\ lb.t = "array" =>
                   /\ \A id \in Ids(lb) :
                          id \in DOMAIN baseScoresRef /\ baseScoresRef[id] = TotalOf(lb, id)
                   /\ DOMAIN baseScoresRef = Ids(lb)

\* C19, with the baseline merged instead: the teams of the payload's
\* leaderboard map to their totals and every other entry keeps its value.
C19_InitialStateMerges ==
    [][Dispatched("initial_state")' =>
          LET p == last'.frame.value
              lb == Field(p, "leaderboard")
              listed == IF lb.t = "array" THEN Ids(lb) ELSE {}
          IN  /\ tournament' = Field(p, "tournament")
              /\ leaderboard' = (IF Truthy(lb) THEN lb ELSE Arr(<<>>))
              /\ DOMAIN baseScoresRef' = DOMAIN baseScoresRef \cup listed
              /\ \A id \in listed : baseScoresRef'[id] = TotalOf(lb, id)
              /\ \A id \in DOMAIN baseScoresRef \ listed :
                     baseScoresRef'[id] = baseScoresRef[id]
      ]_vars

\* the leaderboards that match_completed frames carry
CompletedLeaderboards == {LB2, LB3}

\* C20 (as claimed): a match_completed event makes the leaderboard the
\* payload's, in its order, clears the match progress and sets the baseline
\* of every team in it to the team's total; and the point of a match_progress
\* event dispatched on exactly that baseline is, for a team in it, the total
\* plus the score in the payload.
C20_MatchCompletedSetsBaseline ==
    /\ [][Dispatched("match_completed")' =>
              LET lb == Field(last'.frame.value, "leaderboard") IN
              /\ leaderboard' = lb
              /\ matchProgress' = Null
              /\ \A id \in Ids(lb) :
                     id \in DOMAIN baseScoresRef' /\ baseScoresRef'[id] = TotalOf(lb, id)
          ]_vars
    /\ [][(last'.op = "Render" /\ OnlyUpdaters) =>
              \A j \in DOMAIN pendingGraph :
                  LET u == pendingGraph[j] IN
                  \A items \in CompletedLeaderboards :
                      u.base = BaselineFrom(EmptyMap, Arr(items)) =>
                          \A k \in SlotsWithId(u.data) :
                              LET td == u.data[k] IN
                              td.id \in Ids(Arr(items)) =>
                                  AppendedPoint(j).scores[td.id]
                                      = TotalOf(Arr(items), td.id) + ScoreOf(td)
          ]_vars

\* C20, the event alone: leaderboard, match progress and baseline in the
\* step that dispatches match_completed.
C20_StoreEffect ==
    [][Dispatched("match_completed")' =>
          LET lb == Field(last'.frame.value, "leaderboard") IN
          /\ leaderboard' = lb
          /\ matchProgress' = Null
          /\ \A id \in Ids(lb) :
                 id \in DOMAIN baseScoresRef' /\ baseScoresRef'[id] = TotalOf(lb, id)
      ]_vars

\* the team ids that a match_progress payload names
Participants(d) == {d[k].id : k \in SlotsWithId(d)}

\* C21 (as claimed): the point of a match_progress event, rendered before
\* anything else happens, has for every team of the leaderboard that the
\* payload does not name an entry equal to the team's baseline (so the value
\* repeats from tick to tick while no leaderboard arrives); this includes
\* the points that follow tournament_started.
C21_AbsentTeamsRepeatBaseline ==
    [][(/\ Dispatched("match_progress")
        /\ last'.op = "Render"
        /\ Len(pendingGraph) = 1
        /\ leaderboard.t = "array") =>
          LET point == Last(graphData')
              others == Ids(leaderboard) \ Participants(pendingGraph[1].data)
          IN  \A id \in others :
                  /\ id \in DOMAIN baseScoresRef
                  /\ id \in DOMAIN point.scores
                  /\ point.scores[id] = baseScoresRef[id]
      ]_vars

\* C21, for the teams that have a baseline entry: the point repeats the
\* baseline of every team with an entry that the payload does not name.
C21_BaselineEntriesRepeat ==
    [][(/\ Dispatched("match_progress")
        /\ last'.op = "Render"
        /\ Len(pendingGraph) = 1) =>
          LET point == Last(graphData')
              others == DOMAIN baseScoresRef \ Participants(pendingGraph[1].data)
          IN  \A id \in others :
                  id \in DOMAIN point.scores /\ point.scores[id] = baseScoresRef[id]
      ]_vars

\* all the effects listed for the tag of message p, in a step: for
\* match_progress the payload stored, the tick advanced and a point on its
\* way (an updater that has a payload to read); for the leaderboard events
\* the leaderboard stored and, when the message carries one, the baseline of
\* each of its teams set to the team's total
AllEffects(p) ==
    LET lb == Field(p, "leaderboard") IN
    CASE Tag(p) = "match_progress" ->
             /\ matchProgress' = Field(p, "data")
             /\ dataPointRef' = dataPointRef + 1
             /\ Len(pendingGraph') = Len(pendingGraph) + 1
             /\ Last(pendingGraph').op = "update"
             /\ Truthy(Last(pendingGraph').data)
      [] Tag(p) = "initial_state" ->
             /\ tournament' = Field(p, "tournament")
             /\ leaderboard' = (IF Truthy(lb) THEN lb ELSE Arr(<<>>))
             /\ Truthy(lb) =>
                    /\ lb.t = "array"
                    /\ \A id \in Ids(lb) :
                           id \in DOMAIN baseScoresRef'
                               /\ baseScoresRef'[id] = TotalOf(lb, id)
      [] Tag(p) = "match_completed" ->
             /\ leaderboard' = lb
             /\ matchProgress' = Null
             /\ Truthy(lb) =>
                    /\ lb.t = "array"
                    /\ \A id \in Ids(lb) :
                           id \in DOMAIN baseScoresRef'
                               /\ baseScoresRef'[id] = TotalOf(lb, id)
      [] OTHER -> TRUE

\* C22 (as claimed): a message dispatched to the mounted component either
\* has all the effects listed for its tag or leaves the store and the
\* accumulator as they were.
C22_DispatchAtomic ==
    [][(last'.op = "OnMessage" /\ mounted = "mounted"
          /\ FrameTag(last'.frame) \in KnownTags) =>
          AllEffects(last'.frame.value) \/ UNCHANGED <<store, accum>>
      ]_vars

\* C23 (as claimed): the point appended for a match_progress event carries
\* the tick of its dispatch, and for each team the payload names the
\* baseline of its dispatch plus the score, whatever was dispatched before
\* the updater ran; and no two points of the series share a tick.
C23_PointFromDispatchState ==
    [][(last'.op = "Render" /\ OnlyUpdaters) =>
          /\ \A j \in DOMAIN pendingGraph :
                 LET u == pendingGraph[j] IN
                 /\ AppendedPoint(j).dataPoint = u.tick
                 /\ \A id \in Participants(u.data) :
                        AppendedPoint(j).scores[id]
                            = (IF id \in DOMAIN u.base THEN u.base[id] ELSE 0)
                                + ScoreOf(u.data[CHOOSE k \in SlotsWithId(u.data) :
                                                    u.data[k].id = id])
          /\ \A i, k \in DOMAIN graphData' :
                 i # k => graphData'[i].dataPoint # graphData'[k].dataPoint
      ]_vars

\* C23, restricted to an updater that runs before anything else is
\* dispatched (the refs are still those of its dispatch).
C23_WhenRenderedAtOnce ==
    [][(last'.op = "Render" /\ Len(pendingGraph) = 1 /\ OnlyUpdaters
          /\ pendingGraph[1].base = baseScoresRef
          /\ pendingGraph[1].tick = dataPointRef) =>
          LET u == pendingGraph[1] IN
          /\ Last(graphData').dataPoint = u.tick
          /\ \A id \in Participants(u.data) :
                 Last(graphData').scores[id]
                     = (IF id \in DOMAIN u.base THEN u.base[id] ELSE 0)
                         + ScoreOf(u.data[CHOOSE k \in SlotsWithId(u.data) :
                                             u.data[k].id = id])
      ]_vars

\* C24 (as claimed): once stream events have set the status, the leaderboard
\* or the baseline, a snapshot response that completes afterwards replaces
\* none of them.
C24_LateSnapshotKeepsStreamState ==
    [][(/\ last'.op = "FetchResolve"
        /\ nEvents > 0
        /\ \/ tournament # Status("idle")
           \/ leaderboard # Arr(<<>>)
           \/ baseScoresRef # EmptyMap) =>
          UNCHANGED <<tournament, leaderboard, baseScoresRef>>
      ]_vars

\* the initial_state message that carries tournament T and leaderboard L
InitialStateMsg(T, L) ==
    [t |-> "object", type |-> "initial_state", tournament |-> T, leaderboard |-> L]

\* C25 (as claimed): a successful snapshot with tournament T and leaderboard
\* L, absent leaderboard included, leaves the tournament, the leaderboard
\* and the baseline as dispatching initial_state with T and L from the same
\* state would.
C25_SnapshotLikeInitialState ==
    [][last'.op = "FetchResolve" =>
          LET r == handleWsMessage(Component,
                                   InitialStateMsg(last'.status, last'.leaderboard))
          IN  /\ tournament' = r.tournament
              /\ leaderboard' = r.leaderboard
              /\ baseScoresRef' = r.baseScoresRef
      ]_vars

\* C25 for a snapshot that carries a leaderboard, and for the tournament and
\* the baseline of any snapshot.
C25_SameBaselineAndTournament ==
    [][last'.op = "FetchResolve" =>
          LET r == handleWsMessage(Component,
                                   InitialStateMsg(last'.status, last'.leaderboard))
          IN  /\ tournament' = r.tournament
              /\ Truthy(last'.leaderboard) => leaderboard' = r.leaderboard
              /\ baseScoresRef' = r.baseScoresRef
      ]_vars

\* C26 (as claimed): in every reachable state the ticks of the points of the
\* series increase strictly from the oldest point to the newest.
C26_TicksStrictlyIncreasing ==
    \A i \in 1..(Len(graphData) - 1) :
        graphData[i].dataPoint < graphData[i + 1].dataPoint

\* C26 for the points appended by renders that ran a single updater each:
\* the ticks never decrease, and a render of one updater whose tick is still
\* the counter appends a tick above the newest one.
C26_TicksNeverDecrease ==
    \A i \in 1..(Len(graphData) - 1) :
        graphData[i].dataPoint <= graphData[i + 1].dataPoint

\* the tags of the events that move the tick counter
CounterTags == {"match_progress", "tournament_started", "tournament_reset"}

\* a series of min(tick, WINDOW) points whose newest point carries the tick
SeriesTracksTick(series, tick) ==
    /\ Len(series) = Min(tick, WINDOW)
    /\ series # <<>> => Last(series).dataPoint = tick

\* C27: the tick counter counts the match_progress events dispatched since
\* the last tournament_started or tournament_reset: a match_progress event
\* adds one, those two events set it to 0, and no other step (another event,
\* a render, a snapshot) changes it.  In every state the series holds
\* min(counter, 100) points and its newest point carries the counter.
C27_TickCountsProgressEvents ==
    [][/\ Dispatched("match_progress")' => dataPointRef' = dataPointRef + 1
       /\ (Dispatched("tournament_started")' \/ Dispatched("tournament_reset")')
              => dataPointRef' = 0
       /\ ~(last'.op = "OnMessage" /\ FrameTag(last'.frame) \in CounterTags)
              => UNCHANGED dataPointRef
       /\ SeriesTracksTick(Series, dataPointRef)
       /\ pendingGraph' = <<>> => SeriesTracksTick(graphData', dataPointRef')
      ]_vars

\* C27 witness: a match_progress event was counted as the 101st since the
\* start, with the series at the window's length, its oldest point evicted.
C27_Witness ==
    /\ Dispatched("match_progress")
    /\ dataPointRef = WINDOW + 1
    /\ Len(Series) = WINDOW
    /\ Series[1].dataPoint = 2
    /\ Last(Series).dataPoint = dataPointRef

\* the state of the hook's connection: the readyState of ws.current
ConnState == IF ws = 0 THEN "NONE" ELSE sockets[ws].readyState

\* the step changes the connection state from a to b
Moves(a, b) == ConnState = a /\ ConnState' = b

\* the connection made at mount, the handshake that succeeds, and the
\* reconnection once the timer set by onclose has run its 3000 ms
OpensOrReconnects ==
    \/ Moves("NONE", "CONNECTING") /\ last'.op = "Mount"
    \/ Moves("CONNECTING", "OPEN") /\ last'.op = "OnOpen"
    \/ /\ Moves("CLOSED", "CONNECTING")
       /\ last'.op = "ReconnectFire"
       /\ timers[last'.timer].delay = RECONNECT_DELAY
       /\ timers[last'.timer].elapsed >= RECONNECT_DELAY

\* an open connection ends: by an error or close event, or by close() in
\* the cleanup followed by the close event
OpenEnds ==
    \/ Moves("OPEN", "CLOSED") /\ last'.op \in {"OnError", "OnClose"}
    \/ Moves("OPEN", "CLOSING") /\ last'.op \in {"Teardown", "RenderCrash"}
    \/ Moves("CLOSING", "CLOSED") /\ last'.op \in {"OnError", "OnClose"}

\* a connection that never opened ends: the handshake fails, or the cleanup
\* closes it while it is connecting
ConnectingEnds ==
    \/ Moves("CONNECTING", "CLOSED") /\ last'.op \in {"OnError", "OnClose"}
    \/ Moves("CONNECTING", "CLOSING") /\ last'.op \in {"Teardown", "RenderCrash"}

\* C28 (as claimed): the connection state changes only from Connecting to
\* Open on a successful handshake, from Open to Closed on error or close,
\* and from Closed to Connecting after 3000 ms (the connection made at mount
\* aside).
C28_OnlyThreeTransitions ==
    [][ConnState' # ConnState => (OpensOrReconnects \/ OpenEnds)]_vars

\* C28 (amended): the connection state changes only from Connecting to Open
\* on a successful handshake, from Connecting to Closed when the handshake
\* fails, from Open to Closed on error or close, from Connecting or Open to
\* Closing when the cleanup closes the connection and from Closing to Closed
\* when that close completes, and from Closed to Connecting when the timer
\* set by the close event fires after 3000 ms.
C28_Transitions ==
    [][ConnState' # ConnState =>
          (OpensOrReconnects \/ OpenEnds \/ ConnectingEnds)]_vars

\* C28 witness: with the server unreachable, a closed connection was
\* replaced, 3000 ms after its close event, by one that is connecting.
C28_Witness ==
    /\ last.op = "ReconnectFire"
    /\ ConnState = "CONNECTING"
    /\ ws = 2
    /\ sockets[1].readyState = "CLOSED"
    /\ ~reachable
    /\ timers[last.timer].elapsed = RECONNECT_DELAY

\* the steps of the connection layer
ConnectionOps == {"OnOpen", "OnError", "OnClose", "ReconnectFire", "PingFire"}

\* C29: an open, error or close event, a reconnect timer firing and a
\* keepalive timer firing leave the tournament, the leaderboard, the current
\* match, the match progress, the baseline, the tick counter and the series
\* (rendered points and queued calls) as they were.  An error event
\* dispatches nothing, schedules nothing and replaces no connection: the
\* close event of the same socket, still to come, does the rest.
C29_ConnectionEventsKeepState ==
    [][/\ last'.op \in ConnectionOps => UNCHANGED <<store, accum, fetch, nEvents>>
       /\ last'.op = "OnError" =>
              /\ UNCHANGED <<ws, timers, reconnectTimeout, mounted>>
              /\ closePending' = last'.socket
      ]_vars

\* C29 witness: the second connection opened, after a disconnect, with the
\* status, the baseline, the tick and a point of the series received over
\* the first connection still in place.
C29_Witness ==
    /\ last.op = "OnOpen"
    /\ last.socket = 2
    /\ sockets[1].readyState = "CLOSED"
    /\ mounted = "mounted"
    /\ nEvents > 0
    /\ matchProgress # Null
    /\ dataPointRef > 0
    /\ graphData # <<>>
    /\ baseScoresRef # EmptyMap

\* the tags of the two events that end a tournament
FinishedTags == {"tournament_finished", "showdown_finished"}

\* C30: a tournament_finished or showdown_finished event leaves the status
\* finished, the leaderboard equal to the payload's leaderboard and no
\* current match; the series (rendered points and queued calls), the tick
\* counter and the baseline are as they were before the event.
C30_FinishedEffect ==
    [][(last'.op = "OnMessage" /\ FrameTag(last'.frame) \in FinishedTags) =>
          /\ tournament'.status = "finished"
          /\ leaderboard' = Field(last'.frame.value, "leaderboard")
          /\ currentMatch' = Null
          /\ UNCHANGED <<graphData, pendingGraph, dataPointRef, baseScoresRef>>
      ]_vars

\* C30 witness: a tournament ended during a match, with points rendered, a
\* call queued and a baseline that differs from the final leaderboard.
C30_Witness ==
    /\ last.op = "OnMessage"
    /\ FrameTag(last.frame) \in FinishedTags
    /\ tournament.status = "finished"
    /\ leaderboard.t = "array"
    /\ leaderboard.items # <<>>
    /\ currentMatch = Null
    /\ graphData # <<>>
    /\ pendingGraph # <<>>
    /\ dataPointRef > 0
    /\ \E i \in DOMAIN leaderboard.items :
           LET team == leaderboard.items[i] IN
           team.id \notin DOMAIN baseScoresRef
               \/ baseScoresRef[team.id] # team.total_score

\* C31: a match_started event leaves its payload as the current match,
\* whatever match was current before, and no match progress; the status, the
\* leaderboard, the series (rendered points and queued calls), the tick
\* counter and the baseline are as they were.
C31_MatchStartedEffect ==
    [][Dispatched("match_started")' =>
          /\ currentMatch' = Field(last'.frame.value, "data")
          /\ matchProgress' = Null
          /\ UNCHANGED <<tournament, leaderboard, graphData, pendingGraph,
                         dataPointRef, baseScoresRef>>
      ]_vars

\* C31 witness: a match started after progress events of an earlier match
\* had been received, one of them still queued for the series.
C31_Witness ==
    /\ Dispatched("match_started")
    /\ currentMatch = Match1
    /\ matchProgress = Null
    /\ dataPointRef > 1
    /\ graphData # <<>>
    /\ pendingGraph # <<>>
    /\ Last(pendingGraph).op = "update"
    /\ baseScoresRef # EmptyMap

\* C32: a tournament_paused event leaves the status paused and a
\* tournament_resumed event leaves it running, whatever the status was, and
\* neither changes anything else: the other fields of the tournament, the
\* leaderboard, the current match, the match progress, the baseline, the
\* tick counter and the series are as they were.
C32_PauseResumeSetStatusOnly ==
    [][/\ Dispatched("tournament_paused")' =>
              tournament' = WithStatus(tournament, "paused")
       /\ Dispatched("tournament_resumed")' =>
              tournament' = WithStatus(tournament, "running")
       /\ (Dispatched("tournament_paused")' \/ Dispatched("tournament_resumed")') =>
              UNCHANGED <<leaderboard, currentMatch, matchProgress, graphData,
                          pendingGraph, dataPointRef, baseScoresRef>>
      ]_vars

\* C32 witness: the tournament was paused during a match, with a
\* leaderboard, match progress, points rendered and a call queued.
C32_Witness ==
    /\ Dispatched("tournament_paused")
    /\ tournament.status = "paused"
    /\ leaderboard # Arr(<<>>)
    /\ matchProgress # Null
    /\ graphData # <<>>
    /\ pendingGraph # <<>>
    /\ dataPointRef > 0
    /\ baseScoresRef # EmptyMap

\* the tags of the events that carry a leaderboard
LeaderboardTags ==
    {"initial_state", "match_completed", "tournament_finished", "showdown_finished"}

\* C33 (as claimed): in every reachable state the stored leaderboard is a
\* list of teams, possibly empty, never an absent value, also after a
\* match_completed, tournament_finished or showdown_finished event without
\* a leaderboard.
C33_LeaderboardNeverAbsent == leaderboard.t = "array"

\* C33 for the events that do carry a leaderboard: the stored leaderboard is
\* the payload's list, in the payload's order.
C33_LeaderboardIsLastPayload ==
    [][(/\ last'.op = "OnMessage"
        /\ FrameTag(last'.frame) \in LeaderboardTags
        /\ Truthy(Field(last'.frame.value, "leaderboard"))) =>
          leaderboard' = Field(last'.frame.value, "leaderboard")
      ]_vars

\* the tags of the events that set the status to running
RunningTags == {"tournament_started", "showdown_started", "tournament_resumed"}

\* C34: a click on pause or resume changes nothing in the store, the
\* baseline, the tick counter or the series, whether the request succeeds,
\* fails or is not made for lack of a password; the status becomes paused
\* only by a tournament_paused event and running only by an event that sets
\* it (or by an initial_state event or a snapshot that carries it).
C34_AdminNeverWritesStore ==
    [][/\ last'.op = "AdminClick" => UNCHANGED <<store, accum>>
       /\ (tournament' # tournament /\ tournament'.status = "paused") =>
              \/ Dispatched("tournament_paused")'
              \/ Dispatched("initial_state")'
              \/ last'.op = "FetchResolve"
       /\ (tournament' # tournament /\ tournament'.status = "running") =>
              \/ last'.op = "OnMessage" /\ FrameTag(last'.frame) \in RunningTags
              \/ Dispatched("initial_state")'
              \/ last'.op = "FetchResolve"
      ]_vars

\* C34 witness: the pause request succeeded and the status is still
\* running, no tournament_paused event having arrived.
C34_Witness ==
    /\ last.op = "AdminClick"
    /\ last.action = "pause"
    /\ last.requested
    /\ last.outcome = Fulfilled
    /\ last.toast = ToastSuccess(DoneText("pause"))
    /\ tournament.status = "running"

\* the teams named, with an id, by the first j queued updaters
NamedUpTo(j) == UNION {Participants(pendingGraph[i].data) : i \in 1..j}

\* C35: a match_progress event whose payload names fewer than three teams
\* (team_c absent, or a slot without an id) adds one to the tick counter and
\* makes one setGraphData call, which appends one point.  The point's keys
\* are the teams of the baseline when the point is built and the teams the
\* payload names with an id; a slot that is absent or has no id adds no
\* entry to the point and none to the baseline.
C35_TwoTeamPayload ==
    [][/\ (Dispatched("match_progress")'
             /\ SlotsWithId(last'.frame.value.data) # {"team_a", "team_b", "team_c"}) =>
              /\ dataPointRef' = dataPointRef + 1
              /\ Len(pendingGraph') = Len(pendingGraph) + 1
              /\ Last(pendingGraph').op = "update"
              /\ UNCHANGED <<graphData, baseScoresRef>>
       /\ (last'.op = "Render" /\ OnlyUpdaters) =>
              /\ Len(graphData') = Min(Len(graphData) + Len(pendingGraph), WINDOW)
              /\ \A j \in DOMAIN pendingGraph :
                     DOMAIN AppendedPoint(j).scores
                         = DOMAIN baseScoresRef \cup NamedUpTo(j)
              /\ DOMAIN baseScoresRef'
                     = DOMAIN baseScoresRef \cup NamedUpTo(Len(pendingGraph))
      ]_vars

\* C35 witness: the point of a payload with one team id (team_c absent,
\* team_b without an id) was appended: it has the baseline's teams and that
\* team, and the tick of the event.
C35_Witness ==
    /\ last.op = "Render"
    /\ matchProgress = P3
    /\ graphData # <<>>
    /\ Last(graphData).dataPoint = dataPointRef
    /\ DOMAIN Last(graphData).scores = {"A", "B", "C"}
    /\ DOMAIN baseScoresRef = {"A", "B", "C"}
    /\ baseScoresRef["C"] = 0

\* the tags of the events that replace or clear the current match
MatchTags ==
    {"match_started", "tournament_finished", "showdown_finished", "tournament_reset"}

\* C36: a match_completed event queues no setGraphData call and leaves the
\* tick counter, the rendered series, the current match and the status as
\* they were; the current match changes only when a match_started,
\* tournament_finished, showdown_finished or tournament_reset event is
\* dispatched, so the match that ended stays current until then.
C36_MatchCompletedKeepsMatch ==
    [][/\ Dispatched("match_completed")' =>
              UNCHANGED <<graphData, pendingGraph, dataPointRef, currentMatch,
                          tournament>>
       /\ currentMatch' # currentMatch =>
              last'.op = "OnMessage" /\ FrameTag(last'.frame) \in MatchTags
      ]_vars

\* C36 witness: a match ended after progress events, during a running
\* tournament, and is still the current match.
C36_Witness ==
    /\ Dispatched("match_completed")
    /\ currentMatch = Match1
    /\ matchProgress = Null
    /\ tournament.status = "running"
    /\ graphData # <<>>
    /\ pendingGraph # <<>>
    /\ Last(pendingGraph).op = "update"
    /\ dataPointRef > 0
    /\ leaderboard = Arr(LB2)

\* the step just taken stored a leaderboard that lists team id, or emptied
\* the baseline
BaselineWritten(id) ==
    \/ Dispatched("tournament_started")
    \/ Dispatched("tournament_reset")
    \/ /\ (Dispatched("initial_state") \/ Dispatched("match_completed"))
       /\ id \in Ids(Field(last.frame.value, "leaderboard"))
    \/ last.op = "FetchResolve" /\ id \in Ids(last.leaderboard)

\* C37: a baseline entry, one created as 0 by a match_progress updater
\* included, stays as it is until a leaderboard that lists the team is
\* stored or a tournament_started or tournament_reset event is dispatched;
\* in particular the updaters of match_progress events never change an
\* entry that exists.  Every point built while the entry exists has the
\* team, with the entry's value (0 for a created entry) when the payload
\* does not name the team.
C37_CreatedEntryPersists ==
    [][/\ \A id \in DOMAIN baseScoresRef :
              (id \in DOMAIN baseScoresRef' /\ baseScoresRef'[id] = baseScoresRef[id])
                  \/ BaselineWritten(id)'
       /\ (last'.op = "Render" /\ OnlyUpdaters) =>
              \A j \in DOMAIN pendingGraph : \A id \in DOMAIN baseScoresRef :
                  /\ id \in DOMAIN AppendedPoint(j).scores
                  /\ id \notin Participants(pendingGraph[j].data) =>
                         AppendedPoint(j).scores[id] = baseScoresRef[id]
      ]_vars

\* C37 witness: team C, named by an earlier payload and in no leaderboard,
\* has the baseline 0, and the point of a later payload that names A and B
\* only has C with the value 0.
C37_Witness ==
    /\ last.op = "Render"
    /\ matchProgress = P1
    /\ "C" \in DOMAIN baseScoresRef
    /\ baseScoresRef["C"] = 0
    /\ Len(graphData) >= 2
    /\ "C" \in DOMAIN graphData[Len(graphData) - 1].scores
    /\ Last(graphData).dataPoint > graphData[Len(graphData) - 1].dataPoint
    /\ Last(graphData).scores["C"] = 0
    /\ Last(graphData).scores["A"] = 5

=============================================================================
